---- MODULE Spec2Model ----
(***************************************************************************)
(* Gesture control of the particle Christmas tree.                         *)
(*                                                                         *)
(* The module models src/src/components/GestureInput.tsx: the stability    *)
(* state machine, the low-pass filters and the per-frame landmark handler  *)
(* predictWebcam, together with the shared control state that App.tsx      *)
(* creates and the handlers that write it.                                 *)
(*                                                                         *)
(* Numbers.  JavaScript doubles are modelled in fixed point:               *)
(*   time                      milliseconds        (1.2 s   = 1200)        *)
(*   hoverProgress             1/1200              (1.0     = 1200)        *)
(*   normalised coordinates    1/1000              (1.0     = 1000)        *)
(*   landmark distances        1/100               (0.05    = 5)           *)
(*   openness, spread          1/20                (1.0     = 20)          *)
(*   zoomOffset                1/10                (40      = 400)         *)
(*   rotationBoost             1/1000000           (3.0     = 3000000)     *)
(*   gesture score             1/100               (0.6     = 60)          *)
(* null is <<>> for points and -1 for the (non-negative) distances.        *)
(* clickTrigger holds Date.now() of the last click; its readers react to   *)
(* its changes only, so it is modelled by the number of clicks fired.      *)
(* stateRef and photoRef are copied from appState and selectedPhotoUrl by  *)
(* an effect of the render that follows each change; predictWebcam reads   *)
(* the two state variables directly.                                       *)
(***************************************************************************)
EXTENDS Integers, Sequences, FiniteSets, TLC

\* ------------------------------------------------------------------------
\* GESTURE_CONFIG and the literals of predictWebcam
\* ------------------------------------------------------------------------
FingerExtensionNum == 13
FingerExtensionDen == 10
PinchThreshold == 5
MovementThreshold == 5
StabilityThreshold == 10
DwellClickTime == 1200
ClickCooldown == 2000
PinchCooldown == 500
ScoreThreshold == 60
RotationThreshold == 1
RotationGain == 8000
RotationMax == 3000000
RotationSnap == 1000
ZoomMin == -200
ZoomMax == 400
PhotoLock == 3000

WeightThumb == 3
WeightIndex == 5
WeightMiddle == 5
WeightRing == 4
WeightPinky == 3

\* TreeSystem.tsx / CrystalOrnaments.tsx useFrame, App.tsx rotationSpeed
\* (speeds in 1/1000000 rad per second)
RotationSpeedInit == 300000
IdleSpin == 80000

One == 1000
Null == <<>>
NoDist == -1

\* ------------------------------------------------------------------------
\* Bounds of the model
\* ------------------------------------------------------------------------
MaxClicks == 2
MaxIdle == 200
MaxHeld == 2400

\* ------------------------------------------------------------------------
\* Arithmetic helpers (Math.min, Math.max, Math.abs, Math.sign)
\* ------------------------------------------------------------------------
Min(a, b) == IF a < b THEN a ELSE b
Max(a, b) == IF a > b THEN a ELSE b
Abs(a) == IF a < 0 THEN -a ELSE a
Sign(a) == IF a > 0 THEN 1 ELSE IF a < 0 THEN -1 ELSE 0
\* division rounding toward zero
Quot(a, b) == IF a >= 0 THEN a \div b ELSE -((-a) \div b)
\* division rounding to the nearest, as a double keeps the nearest value
Round(a, b) == Quot(2 * Abs(a) + b, 2 * b) * Sign(a)

\* ------------------------------------------------------------------------
\* class LowPassFilter: value = alpha * newValue + (1 - alpha) * value,
\* alpha given in tenths
\* ------------------------------------------------------------------------
LowPassFilter_filter(value, alpha10, newValue) ==
    Round(alpha10 * newValue + (10 - alpha10) * value, 10)

\* ------------------------------------------------------------------------
\* class GestureStateMachine: a machine is [currentGesture, gestureCount]
\* ------------------------------------------------------------------------
SMInit == [currentGesture |-> "null", gestureCount |-> 0]

SMUpdate_mutCountFromZero(m, gesture) ==
    IF gesture = m.currentGesture
    THEN [m EXCEPT !.gestureCount = Min(m.gestureCount + 1, StabilityThreshold * 2)]
    ELSE [currentGesture |-> gesture, gestureCount |-> 0]

SMUpdate(m, gesture) ==
    IF gesture = m.currentGesture
    THEN [m EXCEPT !.gestureCount = Min(m.gestureCount + 1, StabilityThreshold * 2)]
    ELSE [currentGesture |-> gesture, gestureCount |-> 1]

SMStable(m) == m.gestureCount >= StabilityThreshold

SMReset(m) == [currentGesture |-> "null", gestureCount |-> 0]

\* ------------------------------------------------------------------------
\* State
\* ------------------------------------------------------------------------
VARIABLES
    \* App.tsx useState
    appState, rotationBoost, pointer, hoverProgress, clickTrigger,
    selectedPhotoUrl, panOffset, zoomOffset, gestureState, spreadFactor,
    attractorPoint,
    \* GestureInput.tsx useRef
    palmXFilter, palmYFilter, opennessFilter, spreadFilter,
    gestureStateMachine, dwellTimerRef, clickCooldownRef, lastPalmPos,
    lastHandDistance, lastHandScale, velocityRef,
    \* TreeSystem.tsx: Date.now() - photoOpenTimeRef.current, saturating
    photoAge,
    \* a clickTrigger change whose effects have not run yet
    clickPending,
    \* time spent in predictWebcam calls without a new video frame since
    \* the last processed frame
    idle,
    \* record of the last handler call: which handler, and for
    \* predictWebcam the classification of its input and its locals
    ev,
    \* time for which the still pointing gesture of the last processed
    \* frame has been held: the sum of the frame deltas since it began
    held,
    \* labels given to a stand-alone GestureStateMachine since its last
    \* reset (the last stabilityThreshold of them)
    hist,
    \* GestureInput.tsx set-up effect: the mounted flag, the two promises,
    \* the camera stream, video.srcObject, the onloadedmetadata handler and
    \* the pending requestAnimationFrame callback
    life,
    \* TreeSystem.tsx and CrystalOrnaments.tsx useRef: progress and
    \* treeRotation of each component, with App.tsx rotationSpeed
    scene,
    \* the arrays of the last two layout generations
    layout,
    \* one call of isFingerExtended: its two distances and its result
    finger,
    \* AnimationController.tsx useRef: transitionRef, with the blend factor
    \* calculateSpread last used
    anim,
    \* two calls of the ease expression: their arguments and results
    probe

appVars == <<appState, rotationBoost, pointer, hoverProgress, clickTrigger,
             selectedPhotoUrl, panOffset, zoomOffset, gestureState,
             spreadFactor, attractorPoint>>
refVars == <<palmXFilter, palmYFilter, opennessFilter, spreadFilter,
             gestureStateMachine, dwellTimerRef, clickCooldownRef,
             lastPalmPos, lastHandDistance, lastHandScale, velocityRef>>
auxVars == <<life, scene, layout, finger,
                   anim, probe>>
vars == <<appVars, refVars, photoAge, clickPending, idle, ev, held, hist,
          auxVars>>

\* types.ts defaultGestureState
defaultGestureState ==
    [isOpen |-> FALSE, isClosed |-> FALSE, isPointing |-> FALSE,
     isPinching |-> FALSE, isTwoFingers |-> FALSE, openness |-> 0,
     confidence |-> 0, palmPosition |-> Null, palmVelocity |-> Null]

\* the landmark source's result with no hand in it
NoHand ==
    [hands |-> 0, tip |-> <<0, 0, 0, 0, 0>>, mcp |-> <<0, 0, 0, 0, 0>>,
     pinchDist |-> 0, palm |-> <<0, 0>>, indexTip |-> <<0, 0>>,
     middleTip |-> <<0, 0>>, wristDist |-> 0, gestures |-> <<>>]

NoEvent ==
    [kind |-> "none", hands |-> 0, pointing |-> FALSE, two |-> FALSE,
     five |-> FALSE, pinch |-> FALSE, tip |-> Null, mid |-> Null, delta |-> 0,
     state |-> "CHAOS", photoOpen |-> FALSE, isMoving |-> FALSE, dx |-> 0,
     name |-> "null", smCalled |-> FALSE, smStable |-> FALSE, clicks |-> 0,
     hoverCalls |-> <<>>, scaleDelta |-> 0, open |-> 0, top |-> "null",
     rules |-> {}]

\* The set-up effect once both promises have resolved, the stream is
\* attached and the first predictWebcam call has scheduled the next one
Running ==
    [mounted |-> TRUE, camera |-> "granted", model |-> "loaded",
     setup |-> "attached", stream |-> "live", srcObject |-> TRUE,
     handler |-> FALSE, raf |-> TRUE, loading |-> FALSE, videoRef |-> TRUE]

\* the component just mounted: setupMediaPipe has started both promises
Mounted ==
    [mounted |-> TRUE, camera |-> "pending", model |-> "pending",
     setup |-> "awaiting", stream |-> "none", srcObject |-> FALSE,
     handler |-> FALSE, raf |-> FALSE, loading |-> TRUE, videoRef |-> TRUE]

\* TreeSystem.tsx progress, treeRotation; CrystalOrnaments.tsx progress,
\* treeRotation; App.tsx rotationSpeed
SceneInit ==
    [progress |-> 0, treeRotation |-> 0, oProgress |-> 0, oRotation |-> 0,
     rotationSpeed |-> RotationSpeedInit, frames |-> 0, delta |-> 0,
     target |-> "CHAOS", placed |-> <<>>]

NoLayout == [count |-> 0, first |-> <<>>, second |-> <<>>, calls |-> 0]

NoCall == [tipDist |-> 0, mcpDist |-> 0, called |-> FALSE, result |-> FALSE]

\* AnimationController.tsx transitionRef, before the first frame
AnimInit == [transition |-> 0, blend |-> 0, frames |-> 0]

NoProbe == [p |-> 0, q |-> 0, called |-> FALSE, easeP |-> 0, easeQ |-> 0]

Start(l, f, e) ==
    /\ appState = "CHAOS"
    /\ rotationBoost = 0
    /\ pointer = Null
    /\ hoverProgress = 0
    /\ clickTrigger = 0
    /\ selectedPhotoUrl = "null"
    /\ panOffset = <<0, 0>>
    /\ zoomOffset = 0
    /\ gestureState = defaultGestureState
    /\ spreadFactor = 0
    /\ attractorPoint = Null
    /\ palmXFilter = 0
    /\ palmYFilter = 0
    /\ opennessFilter = 0
    /\ spreadFilter = 0
    /\ gestureStateMachine = SMInit
    /\ dwellTimerRef = 0
    /\ clickCooldownRef = 0
    /\ lastPalmPos = Null
    /\ lastHandDistance = NoDist
    /\ lastHandScale = NoDist
    /\ velocityRef = <<0, 0>>
    /\ photoAge = PhotoLock + 1
    /\ clickPending = FALSE
    /\ idle = 0
    /\ ev = NoEvent
    /\ held = 0
    /\ hist = <<>>
    /\ life = l
    /\ scene = SceneInit
    /\ layout = NoLayout
    /\ finger = f
    /\ anim = AnimInit
    /\ probe = e

\* the program with its recognition loop running
Init == Start(Running, NoCall, NoProbe)

\* the program as GestureInput mounts
InitMount == Start(Mounted, NoCall, NoProbe)

\* ------------------------------------------------------------------------
\* Gesture classification (pure functions of one hand's landmarks).
\* A hand is given by the wrist-to-tip and wrist-to-knuckle distances of
\* its fingers (1 thumb, 2 index, 3 middle, 4 ring, 5 pinky), the
\* thumb-tip-to-index-tip distance, the palm centre and two fingertips.
\* ------------------------------------------------------------------------
isFingerExtended_mutInclusive(tipDist, mcpDist) ==
    tipDist * FingerExtensionDen >= mcpDist * FingerExtensionNum

isFingerExtended(tipDist, mcpDist) ==
    tipDist * FingerExtensionDen > mcpDist * FingerExtensionNum

\* one call of isFingerExtended on the distances held in finger
FingerCall ==
    /\ ~finger.called
    /\ finger' = [finger EXCEPT
                     !.called = TRUE,
                     !.result = isFingerExtended(finger.tipDist, finger.mcpDist)]
    /\ UNCHANGED <<appVars, refVars, photoAge, clickPending, idle, ev, held,
                   hist, life, scene, layout, anim, probe>>

Extended(f, i) == isFingerExtended(f.tip[i], f.mcp[i])

IsPointing(f) ==
    Extended(f, 2) /\ ~Extended(f, 3) /\ ~Extended(f, 4) /\ ~Extended(f, 5)
IsFiveFingers(f) ==
    Extended(f, 2) /\ Extended(f, 3) /\ Extended(f, 4) /\ Extended(f, 5)
    /\ Extended(f, 1)
IsTwoFingers_mutNoRing(f) == Extended(f, 2) /\ Extended(f, 3)

IsTwoFingers(f) ==
    Extended(f, 2) /\ Extended(f, 3) /\ ~Extended(f, 4) /\ ~Extended(f, 5)
IsClosed(f) ==
    ~Extended(f, 2) /\ ~Extended(f, 3) /\ ~Extended(f, 4) /\ ~Extended(f, 5)

isPinching(f) == f.pinchDist < PinchThreshold

calculateOpenness(f) ==
      (IF Extended(f, 1) THEN WeightThumb ELSE 0)
    + (IF Extended(f, 2) THEN WeightIndex ELSE 0)
    + (IF Extended(f, 3) THEN WeightMiddle ELSE 0)
    + (IF Extended(f, 4) THEN WeightRing ELSE 0)
    + (IF Extended(f, 5) THEN WeightPinky ELSE 0)

getHandScale(f) == f.mcp[3]

\* ------------------------------------------------------------------------
\* Zoom: next = prev - amplifiedDelta * gain, clamped to [-20, 40].
\* d is a distance delta in 1/100, the result a zoom step in 1/10.
\* ------------------------------------------------------------------------
ClampZoom_mutNoUpper(z) == Max(ZoomMin, z)

ClampZoom(z) == Max(ZoomMin, Min(z, ZoomMax))

\* Math.sign(d) * |d| * (1 + |d| * 50) * 200
OneHandStep(d) == Sign(d) * Quot(Abs(d) * (100 + Abs(d) * 50) * 200, 1000)
\* Math.sign(d) * |d| * (1 + |d| * 30) * 100
TwoHandStep(d) == Sign(d) * Quot(Abs(d) * (100 + Abs(d) * 30) * 100, 1000)

OneHandZoom_mutAdd(prev, d) == ClampZoom(prev + OneHandStep(d))

OneHandZoom(prev, d) == ClampZoom(prev - OneHandStep(d))
TwoHandZoom(prev, d) == ClampZoom(prev - TwoHandStep(d))

\* ------------------------------------------------------------------------
\* Rotation boost
\* ------------------------------------------------------------------------
BoostAccumulate(prev, dx) ==
    Max(Min(prev - dx * RotationGain, RotationMax), -RotationMax)

BoostDecay(prev) ==
    LET decayed == Quot(prev * 95, 100)
    IN  IF Abs(decayed) < RotationSnap THEN 0 ELSE decayed

\* ------------------------------------------------------------------------
\* predictWebcam, section 4: pointer, pinch click and dwell click.
\* dwell is dwellTimerRef when the section starts.  The result holds the
\* new dwellTimerRef, the values passed to setHoverProgress in order, the
\* number of setClickTrigger calls and whether clickCooldownRef was set.
\* ------------------------------------------------------------------------
PinchClick(dwell, delta) ==
    IF dwell = 0
    THEN [dwell |-> -PinchCooldown, hover |-> <<>>, clicks |-> 1, cool |-> FALSE]
    ELSE IF dwell < 0
    THEN [dwell |-> IF dwell + delta > 0 THEN 0 ELSE dwell + delta,
          hover |-> <<>>, clicks |-> 0, cool |-> FALSE]
    ELSE [dwell |-> dwell, hover |-> <<>>, clicks |-> 0, cool |-> FALSE]

DwellClick_mutStrict(dwell, delta) ==
    LET d == dwell + delta
        progress == Min(d, DwellClickTime)
    IN  IF d > DwellClickTime
        THEN [dwell |-> 0, hover |-> <<progress, 0>>, clicks |-> 1, cool |-> TRUE]
        ELSE [dwell |-> d, hover |-> <<progress>>, clicks |-> 0, cool |-> FALSE]

DwellClick(dwell, delta) ==
    LET d == dwell + delta
        progress == Min(d, DwellClickTime)
    IN  IF d >= DwellClickTime
        THEN [dwell |-> 0, hover |-> <<progress, 0>>, clicks |-> 1, cool |-> TRUE]
        ELSE [dwell |-> d, hover |-> <<progress>>, clicks |-> 0, cool |-> FALSE]

DwellDecay(dwell, delta) ==
    LET d == Max(0, dwell - delta * 2)
    IN  [dwell |-> d, hover |-> <<Min(d, DwellClickTime)>>, clicks |-> 0,
         cool |-> FALSE]

PointerActive(f, currentState) ==
    /\ ~IsTwoFingers(f)
    /\ ~IsFiveFingers(f)
    /\ currentState = "CHAOS"
    /\ (IsPointing(f) \/ isPinching(f))

PointerAndClick(f, currentState, dwell, isMoving, delta) ==
    IF PointerActive(f, currentState)
    THEN IF isPinching(f) THEN PinchClick(dwell, delta)
         ELSE IF ~isMoving THEN DwellClick(dwell, delta)
         ELSE DwellDecay(dwell, delta)
    ELSE [dwell |-> 0, hover |-> <<0>>, clicks |-> 0, cool |-> FALSE]

\* predictWebcam, section 5: the mode switch is evaluated at all
ModeEval(pointing, two, isPhotoOpen, hasGesture) ==
    ~pointing /\ ~two /\ ~isPhotoOpen /\ hasGesture

\* the state given to setState once the machine reports name as stable
\* ("keep" when setState is not called)
ModeSwitch_mutIgnoreMoving(name, currentState, isMoving) ==
    IF name = "Open_Palm" /\ currentState = "FORMED" THEN "CHAOS"
    ELSE IF name = "Closed_Fist" THEN "FORMED"
    ELSE "keep"

ModeSwitch(name, currentState, isMoving) ==
    IF name = "Open_Palm" /\ currentState = "FORMED" /\ ~isMoving THEN "CHAOS"
    ELSE IF name = "Closed_Fist" THEN "FORMED"
    ELSE "keep"

\* predictWebcam, section 3: the two-finger pan applies
PanActive_mutIgnorePhoto(isPhotoOpen, two) == two

PanActive(isPhotoOpen, two) == ~isPhotoOpen /\ two

\* { x: 1.0 - indexTip.x, y: indexTip.y }
MirroredTip(f) == <<One - f.indexTip[1], f.indexTip[2]>>

\* ((0.5 - centerX) * 20, (0.5 - centerY) * 12), centre = midpoint of the
\* index and middle fingertips; the result is in 1/1000
PanTarget(f) ==
    <<(One - (f.indexTip[1] + f.middleTip[1])) * 10,
      (One - (f.indexTip[2] + f.middleTip[2])) * 6>>

LastOr(calls, old) == IF Len(calls) = 0 THEN old ELSE calls[Len(calls)]

Age(a, dt) == Min(a + dt, PhotoLock + 1)

\* the sections of predictWebcam that act on one gesture: 1 (spread),
\* 2 (one-hand zoom), 3 (pan), 4 (pointer and click), 5 (rotation sweep)
ControlRules == {"spread", "zoom", "pan", "pointer", "rotation"}

\* ------------------------------------------------------------------------
\* predictWebcam with a new video frame that shows at least one hand.
\* f is the landmark source's result, dt the time since the previous
\* predictWebcam call in ms.
\* ------------------------------------------------------------------------
HandFrame(f, dt) ==
    LET currentState == appState
        isPhotoOpen == selectedPhotoUrl # "null"
        pointing == IsPointing(f)
        five == IsFiveFingers(f)
        two == IsTwoFingers(f)
        pinch == isPinching(f)
        smoothedOpenness == LowPassFilter_filter(opennessFilter, 3, calculateOpenness(f))
        smoothedPalmX == LowPassFilter_filter(palmXFilter, 4, One - f.palm[1])
        smoothedPalmY == LowPassFilter_filter(palmYFilter, 4, f.palm[2])
        hasLast == lastPalmPos # Null
        dx == IF hasLast THEN smoothedPalmX - (One - lastPalmPos[1]) ELSE 0
        dy == IF hasLast THEN smoothedPalmY - lastPalmPos[2] ELSE 0
        velocity == IF hasLast THEN <<dx, dy>> ELSE velocityRef
        isMoving == Abs(dx) > MovementThreshold \/ Abs(dy) > MovementThreshold
        hasGesture == Len(f.gestures) > 0
        \* 1. spread
        spreadValue == LowPassFilter_filter(spreadFilter, 2, smoothedOpenness)
        \* 2. one-hand zoom
        oneHand == f.hands = 1 /\ five /\ currentState = "CHAOS"
        zoomed == oneHand /\ lastHandScale # NoDist
        deltaScale == getHandScale(f) - lastHandScale
        zoom1 == IF zoomed THEN OneHandZoom(zoomOffset, deltaScale) ELSE zoomOffset
        \* 3. pan
        pan == PanActive(isPhotoOpen, two)
        dwell3 == IF pan THEN 0 ELSE dwellTimerRef
        hover3 == IF pan THEN <<0>> ELSE <<>>
        \* 4. pointer and click
        pc == PointerAndClick(f, currentState, dwell3, isMoving, dt)
        currentPointer == IF PointerActive(f, currentState) THEN MirroredTip(f) ELSE Null
        \* 5. mode switch and rotation
        modeEval == ModeEval(pointing, two, isPhotoOpen, hasGesture)
        name == IF hasGesture THEN f.gestures[1].categoryName ELSE "null"
        score == IF hasGesture THEN f.gestures[1].score ELSE 0
        smCalled == modeEval /\ score > ScoreThreshold
        sm1 == SMUpdate(gestureStateMachine, name)
        stable == smCalled /\ SMStable(sm1)
        switch == IF stable THEN ModeSwitch(name, currentState, isMoving) ELSE "keep"
        sweep == modeEval /\ currentState = "FORMED" /\ five /\ Abs(dx) > RotationThreshold
        decay == modeEval /\ currentState = "FORMED" /\ ~sweep
        \* 6. two-hand zoom
        zoom2 == IF f.hands = 2 /\ lastHandDistance # NoDist
                 THEN TwoHandZoom(zoom1, f.wristDist - lastHandDistance)
                 ELSE zoom1
        hoverCalls == hover3 \o pc.hover
        \* the gesture-specific sections whose condition held
        applied == [r \in ControlRules |->
                      CASE r = "spread" -> five
                        [] r = "zoom" -> oneHand
                        [] r = "pan" -> pan
                        [] r = "pointer" -> PointerActive(f, currentState)
                        [] r = "rotation" -> sweep]
    IN  /\ clickTrigger + pc.clicks <= MaxClicks
        /\ opennessFilter' = smoothedOpenness
        /\ palmXFilter' = smoothedPalmX
        /\ palmYFilter' = smoothedPalmY
        /\ velocityRef' = velocity
        /\ lastPalmPos' = f.palm
        /\ gestureState' =
             [isOpen |-> five, isClosed |-> IsClosed(f), isPointing |-> pointing,
              isPinching |-> pinch, isTwoFingers |-> two,
              openness |-> smoothedOpenness, confidence |-> score,
              palmPosition |-> <<smoothedPalmX, smoothedPalmY>>,
              palmVelocity |-> velocity]
        /\ spreadFilter' = IF five THEN spreadValue ELSE spreadFilter
        /\ spreadFactor' = IF five THEN spreadValue ELSE spreadFactor
        /\ lastHandScale' = IF oneHand THEN getHandScale(f) ELSE NoDist
        /\ panOffset' = IF pan THEN PanTarget(f) ELSE panOffset
        /\ attractorPoint' = currentPointer
        /\ dwellTimerRef' = pc.dwell
        /\ hoverProgress' = LastOr(hoverCalls, hoverProgress)
        /\ clickTrigger' = clickTrigger + pc.clicks
        /\ clickPending' = (clickPending \/ pc.clicks > 0)
        /\ clickCooldownRef' = IF pc.cool THEN ClickCooldown ELSE clickCooldownRef
        /\ gestureStateMachine' =
             IF switch # "keep" THEN SMReset(sm1)
             ELSE IF smCalled THEN sm1 ELSE gestureStateMachine
        /\ appState' = IF switch # "keep" THEN switch ELSE appState
        /\ rotationBoost' = IF sweep THEN BoostAccumulate(rotationBoost, dx)
                            ELSE IF decay THEN BoostDecay(rotationBoost)
                            ELSE rotationBoost
        /\ zoomOffset' = zoom2
        /\ lastHandDistance' = IF f.hands = 2 THEN f.wristDist ELSE NoDist
        /\ pointer' = currentPointer
        /\ photoAge' = Age(photoAge, dt)
        /\ idle' = 0
        /\ ev' = [kind |-> "frame", hands |-> f.hands, pointing |-> pointing,
                  two |-> two, five |-> five, pinch |-> pinch,
                  tip |-> f.indexTip, mid |-> f.middleTip, delta |-> dt,
                  state |-> currentState,
                  photoOpen |-> isPhotoOpen, isMoving |-> isMoving, dx |-> dx,
                  name |-> IF smCalled THEN name ELSE "null",
                  smCalled |-> smCalled, smStable |-> stable,
                  clicks |-> pc.clicks, hoverCalls |-> hoverCalls,
                  scaleDelta |-> IF zoomed THEN deltaScale ELSE 0,
                  open |-> calculateOpenness(f), top |-> name,
                  rules |-> {r \in ControlRules : applied[r]}]
        /\ held' = IF PointerActive(f, currentState) /\ pointing /\ ~pinch /\ ~isMoving
                   THEN Min(held + dt, MaxHeld) ELSE 0
        /\ UNCHANGED <<selectedPhotoUrl, hist>>

\* ------------------------------------------------------------------------
\* predictWebcam with a new video frame that shows no hand
\* ------------------------------------------------------------------------
NoHandFrame_mutKeepDwell(dt) ==
    /\ dwellTimerRef' = dwellTimerRef
    /\ hoverProgress' = 0
    /\ gestureState' = defaultGestureState
    /\ attractorPoint' = Null
    /\ gestureStateMachine' = SMReset(gestureStateMachine)
    /\ IF clickCooldownRef > 0
       THEN /\ clickCooldownRef' = clickCooldownRef - dt
            /\ UNCHANGED lastPalmPos
       ELSE /\ lastPalmPos' = Null
            /\ UNCHANGED clickCooldownRef
    /\ pointer' = Null
    /\ photoAge' = Age(photoAge, dt)
    /\ idle' = 0
    /\ held' = 0
    /\ ev' = [NoEvent EXCEPT !.kind = "frame", !.delta = dt, !.state = appState,
                              !.photoOpen = (selectedPhotoUrl # "null"),
                              !.hoverCalls = <<0>>]
    /\ UNCHANGED <<appState, rotationBoost, clickTrigger, selectedPhotoUrl,
                   panOffset, zoomOffset, spreadFactor, palmXFilter,
                   palmYFilter, opennessFilter, spreadFilter, lastHandDistance,
                   lastHandScale, velocityRef, clickPending, hist>>

NoHandFrame(dt) ==
    /\ dwellTimerRef' = 0
    /\ hoverProgress' = 0
    /\ gestureState' = defaultGestureState
    /\ attractorPoint' = Null
    /\ gestureStateMachine' = SMReset(gestureStateMachine)
    /\ IF clickCooldownRef > 0
       THEN /\ clickCooldownRef' = clickCooldownRef - dt
            /\ UNCHANGED lastPalmPos
       ELSE /\ lastPalmPos' = Null
            /\ UNCHANGED clickCooldownRef
    /\ pointer' = Null
    /\ photoAge' = Age(photoAge, dt)
    /\ idle' = 0
    /\ held' = 0
    /\ ev' = [NoEvent EXCEPT !.kind = "frame", !.delta = dt, !.state = appState,
                              !.photoOpen = (selectedPhotoUrl # "null"),
                              !.hoverCalls = <<0>>]
    /\ UNCHANGED <<appState, rotationBoost, clickTrigger, selectedPhotoUrl,
                   panOffset, zoomOffset, spreadFactor, palmXFilter,
                   palmYFilter, opennessFilter, spreadFilter, lastHandDistance,
                   lastHandScale, velocityRef, clickPending, hist>>

\* the body of predictWebcam with a new video frame
ProcessFrame(f, dt) ==
    /\ ~clickPending
    /\ IF f.hands > 0 THEN HandFrame(f, dt) ELSE NoHandFrame(dt)
    /\ UNCHANGED <<scene, layout, finger,
                   anim, probe>>

\* predictWebcam with a new video frame; it ends by scheduling itself
PredictWebcam(f, dt) ==
    /\ ProcessFrame(f, dt)
    /\ life' = [life EXCEPT !.raf = TRUE]

\* the body of predictWebcam while video.currentTime has not changed, or
\* while the video, the canvas or the recognizer is missing: only
\* lastFrameTimeRef moves
IdleFrame(dt) ==
    /\ ~clickPending
    /\ idle + dt <= MaxIdle
    /\ idle' = idle + dt
    /\ photoAge' = Age(photoAge, dt)
    /\ ev' = [ev EXCEPT !.kind = "skip", !.delta = dt]
    /\ UNCHANGED <<appVars, refVars, clickPending, held, hist, scene, layout,
                   finger,
                   anim, probe>>

SkipFrame(dt) ==
    /\ IdleFrame(dt)
    /\ life' = [life EXCEPT !.raf = TRUE]

\* ------------------------------------------------------------------------
\* The set-up effect of GestureInput and its cleanup
\* ------------------------------------------------------------------------
\* navigator.mediaDevices.getUserMedia resolves: the camera is on
CameraGranted ==
    /\ life.camera = "pending"
    /\ life' = [life EXCEPT !.camera = "granted", !.stream = "live"]
    /\ UNCHANGED <<appVars, refVars, photoAge, clickPending, idle, ev, held,
                   hist, scene, layout, finger,
                   anim, probe>>

\* getUserMedia rejects
CameraDenied ==
    /\ life.camera = "pending"
    /\ life' = [life EXCEPT !.camera = "denied"]
    /\ UNCHANGED <<appVars, refVars, photoAge, clickPending, idle, ev, held,
                   hist, scene, layout, finger,
                   anim, probe>>

\* FilesetResolver.forVisionTasks and GestureRecognizer.createFromOptions
\* resolve
ModelLoaded ==
    /\ life.model = "pending"
    /\ life' = [life EXCEPT !.model = "loaded"]
    /\ UNCHANGED <<appVars, refVars, photoAge, clickPending, idle, ev, held,
                   hist, scene, layout, finger,
                   anim, probe>>

\* one of them rejects
ModelFailed ==
    /\ life.model = "pending"
    /\ life' = [life EXCEPT !.model = "failed"]
    /\ UNCHANGED <<appVars, refVars, photoAge, clickPending, idle, ev, held,
                   hist, scene, layout, finger,
                   anim, probe>>

Rejected(l) == l.camera = "denied" \/ l.model = "failed"
Resolved(l) == l.camera = "granted" /\ l.model = "loaded"

\* setupMediaPipe after its await: the catch block when Promise.all
\* rejected, else the mounted test and the attachment of the stream
SetupContinue_mutStartOnFailure ==
    /\ life.setup = "awaiting"
    /\ Rejected(life) \/ Resolved(life)
    /\ life' = IF Rejected(life)
               THEN [life EXCEPT !.setup = "failed", !.loading = FALSE,
                                 !.raf = TRUE]
               ELSE IF ~life.mounted
               THEN [life EXCEPT !.setup = "dropped"]
               ELSE [life EXCEPT !.setup = "attached", !.srcObject = life.videoRef,
                                 !.handler = life.videoRef]
    /\ UNCHANGED <<appVars, refVars, photoAge, clickPending, idle, ev, held,
                   hist, scene, layout, finger,
                   anim, probe>>

SetupContinue ==
    /\ life.setup = "awaiting"
    /\ Rejected(life) \/ Resolved(life)
    /\ life' = IF Rejected(life)
               THEN [life EXCEPT !.setup = "failed", !.loading = FALSE]
               ELSE IF ~life.mounted
               THEN [life EXCEPT !.setup = "dropped"]
               ELSE [life EXCEPT !.setup = "attached", !.srcObject = life.videoRef,
                                 !.handler = life.videoRef]
    /\ UNCHANGED <<appVars, refVars, photoAge, clickPending, idle, ev, held,
                   hist, scene, layout, finger,
                   anim, probe>>

\* video.onloadedmetadata: play, size the canvas, setLoading(false) and
\* the first predictWebcam call.  The event may already be queued when
\* the cleanup runs.
LoadedMetadata(f, dt) ==
    /\ life.handler
    /\ IF life.videoRef THEN ProcessFrame(f, dt) ELSE IdleFrame(dt)
    /\ life' = [life EXCEPT !.handler = FALSE, !.loading = FALSE,
                            !.raf = TRUE]

\* the callback scheduled by requestAnimationFrame runs predictWebcam
AnimationFrame(f, dt) ==
    /\ life.raf
    /\ IF life.videoRef /\ life.setup = "attached"
       THEN PredictWebcam(f, dt) ELSE SkipFrame(dt)

\* The cleanup of the set-up effect.  detached: videoRef.current is
\* already null when it runs (React detaches the refs of a removed
\* element in the commit, before the passive effect cleanups).
Cleanup(detached) ==
    LET video == life.videoRef /\ ~detached
    IN  /\ life' = [life EXCEPT
                      !.mounted = FALSE,
                      !.raf = FALSE,
                      !.stream = IF video /\ life.srcObject /\ @ = "live"
                                 THEN "stopped" ELSE @,
                      !.videoRef = FALSE]
        /\ ev' = [ev EXCEPT !.kind = "cleanup"]
        /\ UNCHANGED <<appVars, refVars, photoAge, clickPending, idle, held,
                       hist, scene, layout, finger,
                   anim, probe>>

\* ------------------------------------------------------------------------
\* Writers of the shared state outside GestureInput
\* ------------------------------------------------------------------------
\* ControlPanel: stateController.onChange
ToggleState(value) ==
    /\ appState' = value
    /\ ev' = [ev EXCEPT !.kind = "ui"]
    /\ UNCHANGED <<rotationBoost, pointer, hoverProgress, clickTrigger,
                   selectedPhotoUrl, panOffset, zoomOffset, gestureState,
                   spreadFactor, attractorPoint, refVars, photoAge,
                   clickPending, idle, held, hist, auxVars>>

\* PhotoModal onClose
ClosePhoto ==
    /\ selectedPhotoUrl # "null"
    /\ selectedPhotoUrl' = "null"
    /\ ev' = [ev EXCEPT !.kind = "ui"]
    /\ UNCHANGED <<appState, rotationBoost, pointer, hoverProgress,
                   clickTrigger, panOffset, zoomOffset, gestureState,
                   spreadFactor, attractorPoint, refVars, photoAge,
                   clickPending, idle, held, hist, auxVars>>

\* TreeSystem's effect on clickTrigger.  closest is the photo within reach
\* of the pointer ("null" when there is none).  The result is the value
\* given to setSelectedPhotoUrl ("keep" when it is not called) and
\* whether photoOpenTimeRef is set.
TreeClick(closest) ==
    IF pointer = Null \/ clickTrigger = 0 THEN [url |-> "keep", opened |-> FALSE]
    ELSE IF selectedPhotoUrl # "null" /\ photoAge < PhotoLock
    THEN [url |-> "keep", opened |-> FALSE]
    ELSE IF closest # "null"
    THEN IF selectedPhotoUrl = closest /\ photoAge > PhotoLock
         THEN [url |-> "null", opened |-> FALSE]
         ELSE IF selectedPhotoUrl # closest
         THEN [url |-> closest, opened |-> TRUE]
         ELSE [url |-> "keep", opened |-> FALSE]
    ELSE IF selectedPhotoUrl # "null" /\ photoAge > PhotoLock
    THEN [url |-> "null", opened |-> FALSE]
    ELSE [url |-> "keep", opened |-> FALSE]

\* AppContent's effect on clickTrigger.  onModal: the element under the
\* pointer is the modal's backdrop or image.
AppClick(onModal) ==
    IF selectedPhotoUrl # "null" /\ pointer # Null /\ onModal
    THEN "null" ELSE "keep"

\* Both effects run on the render that carries the new clickTrigger; the
\* setSelectedPhotoUrl call made last wins.
ClickEffects(closest, onModal, treeLast) ==
    LET t == TreeClick(closest)
        a == AppClick(onModal)
        url == IF t.url = "keep" THEN a
               ELSE IF a = "keep" THEN t.url
               ELSE IF treeLast THEN t.url ELSE a
    IN  /\ clickPending
        /\ clickPending' = FALSE
        /\ selectedPhotoUrl' = IF url = "keep" THEN selectedPhotoUrl ELSE url
        /\ photoAge' = IF t.opened THEN 0 ELSE photoAge
        /\ ev' = [ev EXCEPT !.kind = "click"]
        /\ UNCHANGED <<appState, rotationBoost, pointer, hoverProgress,
                       clickTrigger, panOffset, zoomOffset, gestureState,
                       spreadFactor, attractorPoint, refVars, idle, held,
                       hist, auxVars>>

\* ------------------------------------------------------------------------
\* The render loop: useFrame of TreeSystem and of CrystalOrnaments.
\* progress and ease are in 1/One; heights and radii in 1/1000; angles and
\* the rotation accumulators in 1/1000000 rad; speeds in 1/1000000 rad/s.
\* ------------------------------------------------------------------------
\* THREE.MathUtils.lerp(x, y, t) = (1 - t) * x + t * y
Lerp_mutOvershoot(x, y, t) == Round((One - 2 * t) * x + 2 * t * y, One)

Lerp(x, y, t) == Round((One - t) * x + t * y, One)

\* 1 - Math.exp(-2.5 * dt) for the frame deltas of the model (in ms): a
\* display frame, a slow frame, and the first frame after the page was
\* hidden for 20 s, for which the double result is exactly 1
DampFactor(dt) ==
    CASE dt = 16 -> 39
      [] dt = 100 -> 221
      [] dt = 20000 -> One

\* THREE.MathUtils.damp(x, y, 2.5, dt) = lerp(x, y, 1 - exp(-2.5 * dt))
Damp(x, y, dt) == Lerp(x, y, DampFactor(dt))

\* ease = p * p * (3 - 2 * p)
Ease_mutSinglePull(p) == Round(Round(p * p, One) * (3 * One - p), One)

Ease(p) == Round(Round(p * p, One) * (3 * One - 2 * p), One)

\* the ease expression evaluated for the two arguments held in probe
EaseCall ==
    /\ ~probe.called
    /\ probe' = [probe EXCEPT !.called = TRUE, !.easeP = Ease(probe.p),
                              !.easeQ = Ease(probe.q)]
    /\ UNCHANGED <<appVars, refVars, photoAge, clickPending, idle, ev, held,
                   hist, life, scene, layout, finger, anim>>

\* the rotation accumulator's increment for a spin rate and a delta
Spin(rate, dt) == Quot(rate, One) * dt

TreeSpinRate(state, speed, boost) ==
    IF state = "FORMED" THEN speed + boost ELSE IdleSpin

OrnamentSpinRate(state, speed) ==
    IF state = "FORMED" THEN speed ELSE IdleSpin

\* vortexTwist = (1 - ease) * gain
VortexTwist_mutResidual(ease, gain) == (One - ease) * gain * One + gain

VortexTwist(ease, gain) == (One - ease) * gain * One

\* The layers placed by the two useFrame callbacks: the gain of the vortex
\* twist and the share (in 1/100) of the rotation accumulator that turns
\* the chaos position
Layers ==
    { [name |-> "foliage", gain |-> 18, chaosSpin |-> 50],
      [name |-> "lights", gain |-> 15, chaosSpin |-> 30],
      [name |-> "photos", gain |-> 12, chaosSpin |-> 20],
      [name |-> "ornaments", gain |-> 15, chaosSpin |-> 12] }

LayerNames == {l.name : l \in Layers}

Layer(n) == CHOOSE l \in Layers : l.name = n

\* One item of a layer in cylinder coordinates: chaos height, radius
\* sqrt(cx^2 + cz^2) and angle atan2(cz, cx), and the same of its tree
\* point
Item(n) ==
    CASE n = "foliage" -> [cy |-> 5000, cr |-> 12000, cAngle |-> 700000,
                           ty |-> -2500, tr |-> 3000, tAngle |-> 2100000]
      [] n = "lights" -> [cy |-> -8000, cr |-> 20000, cAngle |-> -1500000,
                          ty |-> 6000, tr |-> 870, tAngle |-> 400000]
      [] n = "photos" -> [cy |-> 9000, cr |-> 14000, cAngle |-> 3000000,
                          ty |-> -7000, tr |-> 10100, tAngle |-> 0]
      [] n = "ornaments" -> [cy |-> 0, cr |-> 15000, cAngle |-> 100000,
                             ty |-> 4500, tr |-> 2000, tAngle |-> -900000]

\* The position given to an item: x = lerp(cr * cos(chaosAngle),
\* r * cos(angle), ease), y, z = lerp(cr * sin(chaosAngle),
\* r * sin(angle), ease), kept as the two weights of the lerp and the two
\* points in cylinder coordinates
Place(n, ease, rot) ==
    LET it == Item(n)
        l == Layer(n)
        twist == VortexTwist(ease, l.gain)
    IN  [y |-> Lerp(it.cy, it.ty, ease),
         r |-> Lerp(it.cr, it.tr, ease),
         twist |-> twist,
         angle |-> it.tAngle + twist + rot,
         treeWeight |-> ease,
         chaosWeight |-> One - ease,
         chaosR |-> it.cr,
         chaosAngle |-> it.cAngle + Quot(rot, 100) * l.chaosSpin]

\* One rendered frame: both callbacks run with the same delta and the
\* same context values
RenderFrame(dt) ==
    LET p == Damp(scene.progress, IF appState = "FORMED" THEN One ELSE 0, dt)
        rot == scene.treeRotation
                 + Spin(TreeSpinRate(appState, scene.rotationSpeed,
                                     rotationBoost), dt)
        op == Damp(scene.oProgress, IF appState = "FORMED" THEN One ELSE 0, dt)
        orot == scene.oRotation
                  + Spin(OrnamentSpinRate(appState, scene.rotationSpeed), dt)
    IN  /\ scene' = [scene EXCEPT
                       !.progress = p, !.treeRotation = rot,
                       !.oProgress = op, !.oRotation = orot,
                       !.frames = @ + 1,
                       !.delta = dt,
                       !.target = appState,
                       !.placed = [n \in LayerNames |->
                                     IF n = "ornaments"
                                     THEN Place(n, Ease(op), orot)
                                     ELSE Place(n, Ease(p), rot)]]
        /\ UNCHANGED <<appVars, refVars, photoAge, clickPending, idle, ev,
                       held, hist, life, layout, finger,
                   anim, probe>>

\* ControlPanel: the rotationSpeed slider
SetRotationSpeed(value) ==
    /\ scene' = [scene EXCEPT !.rotationSpeed = value]
    /\ UNCHANGED <<appVars, refVars, photoAge, clickPending, idle, ev, held,
                   hist, life, layout, finger,
                   anim, probe>>

\* ------------------------------------------------------------------------
\* useAnimationController: the transition value and the blend factor of
\* calculateSpread, both in 1/One.  spreadFactor is in 1/20.
\* ------------------------------------------------------------------------
\* spreadFactor * 0.3 while the hand is open
GestureSpread ==
    IF gestureState.isOpen THEN Round(spreadFactor * 3 * One, 200) ELSE 0

\* the third argument of lerpVectors in calculateSpread
SpreadBlend(transition) == Min(Ease(transition) + GestureSpread, One)

\* useFrame of useAnimationController, delta = dt ms, followed by the
\* blend calculateSpread computes from the new transition value
AnimFrame(dt) ==
    LET target == IF appState = "FORMED" THEN One ELSE 0
        transition == Lerp(anim.transition, target, Round(dt * 25, 10))
    IN  /\ anim' = [transition |-> transition, blend |-> SpreadBlend(transition),
                    frames |-> anim.frames + 1]
        /\ UNCHANGED <<appVars, refVars, photoAge, clickPending, idle, ev,
                       held, hist, life, scene, layout, finger, probe>>

\* ------------------------------------------------------------------------
\* The layout generators: generateTreePositions of ParticleSystem and the
\* data generation of TreeSystem (foliage, lights, photos).  Lengths are
\* in 1/1000, angles in 1/1000 rad, Math.random() values in 1/One.
\* ------------------------------------------------------------------------
\* the result of 0 / 0
NaN == -1000000000

\* a / b, as a fraction in 1/One
Div(a, b) == IF b = 0 /\ a = 0 THEN NaN ELSE Round(a * One, b)

Pi == 3142

\* Math.sin(x): Bhaskara's rational approximation on a half period
SinHalf(x) ==
    LET q == Quot(x * (Pi - x), 100)
    IN  Round(16 * q * One, Quot(5 * Pi * Pi, 100) - 4 * q)

Sin(x) ==
    LET y == x % (2 * Pi)
    IN  IF y <= Pi THEN SinHalf(y) ELSE -SinHalf(y - Pi)

\* Math.pow(v, e / 100) for the Math.random() values of the model
Pow(v, e) ==
    IF v = 0 THEN 0
    ELSE CASE e = 100 -> v
           [] v = 500 /\ e = 70 -> 616
           [] v = 500 /\ e = 60 -> 660
           [] v = 500 /\ e = 40 -> 758

\* The values Math.random() returns to one generation, in call order; a
\* stream shorter than the number of calls repeats
RandomStreams ==
    { <<0>>, <<500>>, <<0, 500>>, <<500, 0>>, <<0, 0, 500>> }

Rand(s, k) == s[((k - 1) % Len(s)) + 1]

\* The constants of the two foliage generators: the exponents of the
\* height and radius draws, the cone's slope (1/100), the height and
\* angle factors of the spiral (1/10), the size range, the chaos radius
ParticleShape ==
    [hExp |-> 70, rExp |-> 60, slope |-> 52, spiralH |-> 5, spiralA |-> 20,
     sizeSpan |-> 3000, sizeMin |-> 1200, radius |-> 25000]
FoliageShape ==
    [hExp |-> 100, rExp |-> 40, slope |-> 55, spiralH |-> 8, spiralA |-> 30,
     sizeSpan |-> 3500, sizeMin |-> 1000, radius |-> 20000]

\* random.inSphere: item i's chaos point, kept as its distance from the
\* centre; g holds the values of the library's generator
InSphere(radius, g, i) == Round(radius * Rand(g, i + 1), One)

\* One particle of a foliage generator: its tree point in cylinder
\* coordinates (x = cos(angle) * r, y, z = sin(angle) * r) and its size,
\* from four Math.random() calls
TreeParticle(shape, s, k) ==
    LET h == Pow(Rand(s, k), shape.hExp) * 16
        maxR == Round((16 * One - h) * shape.slope, 100)
        r == Round(Pow(Rand(s, k + 1), shape.rExp) * maxR, One)
        angle == Round(Rand(s, k + 2) * 2 * Pi, One)
        spiralOffset ==
            Round(Sin(Round(h * shape.spiralH, 10)
                        + Round(angle * shape.spiralA, 10)) * 300, One)
    IN  [y |-> h - 7500, r |-> r + spiralOffset, angle |-> angle,
         size |-> Round(Rand(s, k + 3) * shape.sizeSpan, One) + shape.sizeMin]

\* generateTreePositions(count), and the foliage loop of TreeSystem for
\* particleCount = count; first is the number of Math.random() calls made
\* before it
FoliageLayout(shape, count, s, g, first) ==
    [i \in 1..count |->
        [chaos |-> InSphere(shape.radius, g, i - 1),
         tree |-> TreeParticle(shape, s, first + 4 * (i - 1) + 1)]]

\* the lights of TreeSystem for lightCount = count
LightLayout(count, g) ==
    [j \in 1..count |->
        LET t == Div(j - 1, count)
            h == t * 15
        IN  [chaos |-> InSphere(22000, g, j - 1),
             tree |-> [y |-> h - 7500,
                       r |-> Round((16 * One - h) * 58, 100),
                       angle |-> Round(t * Pi * 35, One)]]]

\* t = i / (photoFiles.length - 1)
IndexFraction_mutAlternate(i, count) == Div(i % 2, count - 1)

IndexFraction(i, count) == Div(i, count - 1)

\* arithmetic on t keeps NaN
PhotoTree(t) ==
    IF t = NaN THEN [y |-> NaN, r |-> NaN, angle |-> NaN]
    ELSE LET h == t * 15 - 7000
         IN  [y |-> h,
              r |-> Round((8500 - h) * 6, 10) + 800,
              angle |-> Round(t * Pi * 10, One)]

\* the photos of TreeSystem for photoFiles.length = count; each photo
\* makes five Math.random() calls (chaos radius, three angles, scale)
PhotoLayout(count, s, first) ==
    [j \in 1..count |->
        [id |-> j - 1,
         chaos |-> 13000 + Rand(s, first + 5 * (j - 1) + 1) * 4,
         tree |-> PhotoTree(IndexFraction(j - 1, count)),
         scale |-> 850 + Round(Rand(s, first + 5 * (j - 1) + 5) * 300, One)]]

\* all arrays of one generation for one count
Generated(count, s, g) ==
    [particles |-> FoliageLayout(ParticleShape, count, s, g, 0),
     foliage |-> FoliageLayout(FoliageShape, count, s, g, 4 * count),
     lights |-> LightLayout(count, g),
     photos |-> PhotoLayout(count, s, 8 * count)]

\* The generators run for a count: the first run for a new count is kept
\* as layout.first, a further run with the same count as layout.second
Generate(count, s, g) ==
    /\ layout' = IF layout.calls = 0 \/ layout.count # count
                 THEN [count |-> count, first |-> Generated(count, s, g),
                       second |-> <<>>, calls |-> 1]
                 ELSE [layout EXCEPT !.second = Generated(count, s, g),
                                     !.calls = 2]
    /\ UNCHANGED <<appVars, refVars, photoAge, clickPending, idle, ev, held,
                   hist, life, scene, finger,
                   anim, probe>>

\* ------------------------------------------------------------------------
\* A GestureStateMachine driven on its own
\* ------------------------------------------------------------------------
Remember(h, g) ==
    IF Len(h) < StabilityThreshold THEN Append(h, g) ELSE Append(Tail(h), g)

MachineUpdate(g) ==
    LET m == SMUpdate(gestureStateMachine, g)
    IN  /\ gestureStateMachine' = m
        /\ hist' = Remember(hist, g)
        /\ ev' = [ev EXCEPT !.kind = "update", !.smCalled = TRUE,
                            !.smStable = SMStable(m)]
        /\ UNCHANGED <<appVars, palmXFilter, palmYFilter, opennessFilter,
                       spreadFilter, dwellTimerRef, clickCooldownRef,
                       lastPalmPos, lastHandDistance, lastHandScale,
                       velocityRef, photoAge, clickPending, idle, held,
                       auxVars>>

MachineReset ==
    /\ gestureStateMachine' = SMReset(gestureStateMachine)
    /\ hist' = <<>>
    /\ ev' = [ev EXCEPT !.kind = "reset", !.smCalled = FALSE, !.smStable = FALSE]
    /\ UNCHANGED <<appVars, palmXFilter, palmYFilter, opennessFilter,
                   spreadFilter, dwellTimerRef, clickCooldownRef,
                   lastPalmPos, lastHandDistance, lastHandScale,
                   velocityRef, photoAge, clickPending, idle, held, auxVars>>

Labels == {"Open_Palm", "Closed_Fist", "null"}

NextSM == (\E g \in Labels : MachineUpdate(g)) \/ MachineReset

SpecSM == Init /\ [][NextSM]_vars

AllSame(h) == \A i \in 1..Len(h) : h[i] = h[Len(h)]

\* C1: update reports stable exactly when the label just given is the
\* label of the last 10 (stabilityThreshold) update calls with no reset in
\* between, and a call with a label different from the one before it
\* leaves the count at 1.
C1_StableIffTenInARow ==
    ev.kind = "update" =>
        /\ ev.smStable <=> (Len(hist) = StabilityThreshold /\ AllSame(hist))
        /\ (Len(hist) >= 2 /\ hist[Len(hist)] # hist[Len(hist) - 1])
              => gestureStateMachine.gestureCount = 1

C1_Witness ==
    /\ ev.kind = "update"
    /\ ev.smStable
    /\ Len(hist) = StabilityThreshold
    /\ AllSame(hist)
    /\ gestureStateMachine.gestureCount = StabilityThreshold

\* ------------------------------------------------------------------------
\* Landmark results fed to predictWebcam
\* ------------------------------------------------------------------------
\* a hand whose extended fingers are ext, with every knuckle at distance
\* scale from the wrist
Hand(hands, ext, scale, pinchDist, palm, indexTip, gestures) ==
    [hands |-> hands,
     tip |-> [i \in 1..5 |-> IF i \in ext THEN 3 * scale ELSE scale \div 2],
     mcp |-> [i \in 1..5 |-> scale],
     pinchDist |-> pinchDist, palm |-> palm, indexTip |-> indexTip,
     middleTip |-> <<indexTip[1] + 40, indexTip[2]>>,
     wristDist |-> IF hands = 2 THEN 3 * scale ELSE 0,
     gestures |-> gestures]

Fist == {}
Point == {2}
Two == {2, 3}
Five == {1, 2, 3, 4, 5}

Gesture(name, score) == <<[categoryName |-> name, score |-> score]>>

\* ------------------------------------------------------------------------
\* Mode switching.  One hand or none; the hand is a fist, points or shows
\* two fingers; its palm rests or, from rest, jumps for a frame; the
\* recogniser labels it Closed_Fist or Open_Palm; the pointing hand's
\* dwell clicks open and close photos; the control panel toggles the
\* mode.  Frames are ModeDt apart.
\* ------------------------------------------------------------------------
ModeFrames ==
    { Hand(1, Fist, 10, 10, <<1000, 0>>, <<300, 400>>, Gesture("Closed_Fist", 90)),
      Hand(1, Fist, 10, 10, <<1000, 0>>, <<300, 400>>, Gesture("Open_Palm", 90)),
      Hand(1, Fist, 10, 10, <<1000, 14>>, <<300, 400>>, Gesture("Open_Palm", 90)),
      Hand(1, Point, 10, 10, <<1000, 0>>, <<300, 400>>, Gesture("Closed_Fist", 90)),
      Hand(1, Two, 10, 10, <<1000, 0>>, <<300, 400>>, Gesture("Closed_Fist", 90)) }
ModeDt == 3001

\* the palm leaves the rest position only once the palm filter is back
\* near it
FromRest(f) ==
    f.palm[2] # 0 => (palmYFilter <= 1 /\ lastPalmPos \in {Null, <<1000, 0>>})

ModeFrame == \E f \in ModeFrames : FromRest(f) /\ PredictWebcam(f, ModeDt)

ModeNoHand == PredictWebcam(NoHand, ModeDt)

ModeToggle == \E value \in {"CHAOS", "FORMED"} : ToggleState(value)

ModeClick ==
    \E closest \in {"null", "p1"}, onModal \in BOOLEAN, treeLast \in BOOLEAN :
        ClickEffects(closest, onModal, treeLast)

Next == ModeFrame \/ ModeNoHand \/ ModeToggle \/ ModeClick \/ ClosePhoto

Spec == Init /\ [][Next]_vars


\* the frame just processed is one whose label may switch the mode
C2_Eligible ==
    /\ ev'.hands > 0 /\ ~ev'.pointing /\ ~ev'.two /\ ~ev'.photoOpen
    /\ ev'.smStable

C2_ToChaos ==
    C2_Eligible /\ ev'.name = "Open_Palm" /\ appState = "FORMED" /\ ~ev'.isMoving

C2_ToFormed == C2_Eligible /\ ~C2_ToChaos /\ ev'.name = "Closed_Fist"

\* C2: a processed frame changes AppState only when the hand is not
\* pointing, not two-fingers, no photo is open and the machine reports a
\* stable label: stable Open_Palm in FORMED with a resting palm gives
\* CHAOS, stable Closed_Fist gives FORMED from either state, every other
\* processed frame keeps AppState; each switch resets the machine.
C2_ModeSwitch ==
    [][ev'.kind = "frame" =>
          /\ C2_ToChaos => (appState' = "CHAOS" /\ gestureStateMachine' = SMInit)
          /\ C2_ToFormed => (appState' = "FORMED" /\ gestureStateMachine' = SMInit)
          /\ (~C2_ToChaos /\ ~C2_ToFormed) => appState' = appState]_vars

C2_Witness ==
    /\ ev.kind = "frame" /\ ev.smStable /\ ev.name = "Open_Palm"
    /\ ev.state = "FORMED" /\ appState = "CHAOS"
    /\ gestureStateMachine = SMInit

\* C11: a processed frame whose hand shows two fingers while no photo is
\* open sets panOffset to ((0.5 - cx) * 20, (0.5 - cy) * 12), (cx, cy) the
\* midpoint of the index and middle fingertips, and leaves the dwell timer
\* and hoverProgress 0; every other processed frame keeps panOffset.
C11_PanOnlyTwoFingers ==
    [][ev'.kind = "frame" =>
          IF ev'.hands > 0 /\ ev'.two /\ ~ev'.photoOpen
          THEN /\ panOffset' = <<(One - (ev'.tip[1] + ev'.mid[1])) * 10,
                                 (One - (ev'.tip[2] + ev'.mid[2])) * 6>>
               /\ dwellTimerRef' = 0
               /\ hoverProgress' = 0
          ELSE panOffset' = panOffset]_vars

\* a two-finger frame, after a click and with no photo open, has moved
\* panOffset
C11_Witness ==
    /\ ev.kind = "frame" /\ ev.hands > 0 /\ ev.two /\ ~ev.photoOpen
    /\ panOffset = <<3600, 1200>>
    /\ clickTrigger > 0

\* ------------------------------------------------------------------------
\* The hand leaves.  One hand or none; the hand is a fist labelled
\* Closed_Fist, points or pinches; frames are LeaveDt apart; clicks hit no
\* photo; the control panel brings the mode back to CHAOS.
\* ------------------------------------------------------------------------
Unlabelled == Gesture("None", 50)

LeaveFrames ==
    { Hand(1, Fist, 10, 10, <<1000, 0>>, <<300, 400>>, Gesture("Closed_Fist", 90)),
      Hand(1, Point, 10, 10, <<1000, 0>>, <<300, 400>>, Unlabelled),
      Hand(1, Point, 10, 0, <<1000, 0>>, <<300, 400>>, Unlabelled) }
LeaveDt == 400

LeaveFrame == \E f \in LeaveFrames : PredictWebcam(f, LeaveDt)

LeaveNoHand == PredictWebcam(NoHand, LeaveDt)

LeaveToggle == appState = "FORMED" /\ ToggleState("CHAOS")

LeaveMiss == ClickEffects("null", FALSE, TRUE)

NextLeave == LeaveFrame \/ LeaveNoHand \/ LeaveToggle \/ LeaveMiss

SpecLeave == Init /\ [][NextLeave]_vars

\* the neutral GestureState
C3_Neutral ==
    [isOpen |-> FALSE, isClosed |-> FALSE, isPointing |-> FALSE,
     isPinching |-> FALSE, isTwoFingers |-> FALSE, openness |-> 0,
     confidence |-> 0, palmPosition |-> Null, palmVelocity |-> Null]

\* C3: a processed frame without a hand leaves GestureState neutral, the
\* machine reset, the dwell timer and hoverProgress 0 and attractorPoint
\* and pointer null; the click cooldown alone may stay non-zero, and it
\* does not grow.
C3_NoHandNeutral ==
    [][(ev'.kind = "frame" /\ ev'.hands = 0) =>
          /\ gestureState' = C3_Neutral
          /\ gestureStateMachine' = [currentGesture |-> "null", gestureCount |-> 0]
          /\ dwellTimerRef' = 0
          /\ hoverProgress' = 0
          /\ attractorPoint' = Null
          /\ pointer' = Null
          /\ clickCooldownRef' <= clickCooldownRef]_vars

C3_Witness ==
    /\ ev.kind = "frame" /\ ev.hands = 0
    /\ clickCooldownRef > 0 /\ clickCooldownRef < ClickCooldown
    /\ gestureState = C3_Neutral /\ pointer = Null /\ dwellTimerRef = 0

\* ------------------------------------------------------------------------
\* Pointer and clicks.  One or two hands or none; the first hand points,
\* pinches or shows two fingers; its palm rests or, from rest, jumps for a
\* frame; frames are 200 or 400 ms apart, the first frame after the hand
\* has gone is ClickGap later; the control panel toggles the mode.
\* ------------------------------------------------------------------------
ClickFrames ==
    { Hand(1, Point, 10, 10, <<1000, 0>>, <<300, 400>>, Unlabelled),
      Hand(1, Point, 10, 10, <<1000, 14>>, <<300, 400>>, Unlabelled),
      Hand(1, Point, 10, 0, <<1000, 0>>, <<300, 400>>, Unlabelled),
      Hand(1, Two, 10, 10, <<1000, 0>>, <<300, 400>>, Unlabelled),
      Hand(2, Point, 10, 10, <<1000, 0>>, <<600, 400>>, Unlabelled) }
ClickDts == {200, 400}
ClickGap == 1200

ClickFrame ==
    \E f \in ClickFrames, dt \in ClickDts : FromRest(f) /\ PredictWebcam(f, dt)

ClickNoHand == PredictWebcam(NoHand, ClickGap)

ClickToggle == \E value \in {"CHAOS", "FORMED"} : ToggleState(value)

ClickMiss == ClickEffects("null", FALSE, TRUE)

NextClick == ClickFrame \/ ClickNoHand \/ ClickToggle \/ ClickMiss

SpecClick == Init /\ [][NextClick]_vars

\* C5: every value given to setHoverProgress, and so hoverProgress itself,
\* lies in [0,1].
C5_HoverInUnitRange ==
    /\ hoverProgress \in 0..DwellClickTime
    /\ \A i \in 1..Len(ev.hoverCalls) : ev.hoverCalls[i] \in 0..DwellClickTime

\* a frame whose hand pinches under the pointer rule
C6_PinchFrame(e) ==
    e.hands > 0 /\ e.pinch /\ e.state = "CHAOS" /\ ~e.two /\ ~e.five

\* C6: the pinch click is edge-triggered.  In CHAOS, with the pointer
\* rule applying, a frame in which a pinch begins outside the cooldown
\* fires a click whatever the dwell timer held, and a frame that
\* continues the pinch of the frame before fires none.
C6_PinchEdgeTriggered ==
    [][(ev'.kind = "frame" /\ C6_PinchFrame(ev')) =>
          /\ C6_PinchFrame(ev) => ev'.clicks = 0
          /\ (~ev.pinch /\ dwellTimerRef >= 0) => ev'.clicks = 1]_vars

\* the condition the pointer is bound to
C10_Active ==
    /\ ev.state = "CHAOS" /\ ev.hands = 1 /\ ~ev.two /\ ~ev.five
    /\ (ev.pointing \/ ev.pinch)

\* C10: after a processed frame attractorPoint and pointer are the
\* mirrored index fingertip when AppState is CHAOS, exactly one hand is
\* present, it shows neither two nor five fingers and it points or
\* pinches; otherwise both are null.
C10_PointerIffOneHand ==
    ev.kind = "frame" =>
        IF C10_Active
        THEN /\ attractorPoint = <<One - ev.tip[1], ev.tip[2]>>
             /\ pointer = <<One - ev.tip[1], ev.tip[2]>>
        ELSE attractorPoint = Null /\ pointer = Null

\* ------------------------------------------------------------------------
\* Dwell click.  From the start, in CHAOS, every processed frame shows one
\* hand pointing without a pinch and classified as not moving; the frames
\* are a fixed interval apart; clicks hit no photo.
\* ------------------------------------------------------------------------
DwellIntervals == {100, 200, 300, 400, 500, 700, 1200, 1300}
DwellPalms == {<<1000, 0>>, <<1000, 14>>}
DwellTips == {<<300, 400>>, <<600, 500>>}

DwellFrame ==
    \E dt \in DwellIntervals, palm \in DwellPalms, tip \in DwellTips :
        /\ ev.kind = "none" \/ dt = ev.delta
        /\ PredictWebcam(Hand(1, Point, 10, 10, palm, tip, Unlabelled), dt)
        /\ ~ev'.isMoving

DwellMiss == ClickEffects("null", FALSE, TRUE)

NextDwell == DwellFrame \/ DwellMiss

SpecDwell == Init /\ [][NextDwell]_vars

ZoomScales == {10, 12, 20}
ZoomDt == 33
ZoomSkipDt == 100

ZoomFrame ==
    \E hands \in 1..2, scale \in ZoomScales :
        PredictWebcam(Hand(hands, Five, scale, 10, <<1000, 0>>, <<300, 400>>,
                           Unlabelled), ZoomDt)

ZoomNoHand == PredictWebcam(NoHand, ZoomDt)

ZoomToggle == \E value \in {"CHAOS", "FORMED"} : ToggleState(value)

ZoomSkip == SkipFrame(ZoomSkipDt)

NextZoom == ZoomFrame \/ ZoomNoHand \/ ZoomToggle \/ ZoomSkip

SpecZoom == Init /\ [][NextZoom]_vars

\* C7: zoomOffset stays in [-20, 40].
C7_ZoomInBounds == zoomOffset >= ZoomMin /\ zoomOffset <= ZoomMax

\* a one-hand update whose unclamped result lies above the maximum
C7_Witness ==
    /\ ev.kind = "frame" /\ ev.hands = 1
    /\ OneHandStep(ev.scaleDelta) < ZoomMin - ZoomMax
    /\ zoomOffset = ZoomMax

\* a hand-scale delta is large when its zoom step spans the whole range
C8_Large(d) == Abs(OneHandStep(d)) >= ZoomMax - ZoomMin

\* C8 as stated: on the one-hand path a positive hand-scale delta moves
\* zoomOffset up, to the maximum 40 when the delta is large, and a
\* negative one moves it down, to the minimum -20 when large.
C8_PositiveDrivesToMax ==
    [][(ev'.kind = "frame" /\ ev'.hands = 1) =>
          /\ ev'.scaleDelta > 0 => (zoomOffset' > zoomOffset \/ zoomOffset' = ZoomMax)
          /\ (ev'.scaleDelta > 0 /\ C8_Large(ev'.scaleDelta)) => zoomOffset' = ZoomMax
          /\ ev'.scaleDelta < 0 => (zoomOffset' < zoomOffset \/ zoomOffset' = ZoomMin)
          /\ (ev'.scaleDelta < 0 /\ C8_Large(ev'.scaleDelta)) => zoomOffset' = ZoomMin]_vars

\* C8 amended: on the one-hand path a positive hand-scale delta moves
\* zoomOffset down, to the minimum -20 when the delta is large and never
\* below it, and a negative one moves it up, to the maximum 40 when large
\* and never past it.
C8_PositiveDrivesToMin ==
    [][(ev'.kind = "frame" /\ ev'.hands = 1) =>
          /\ ev'.scaleDelta > 0 => (zoomOffset' < zoomOffset \/ zoomOffset' = ZoomMin)
          /\ (ev'.scaleDelta > 0 /\ C8_Large(ev'.scaleDelta)) => zoomOffset' = ZoomMin
          /\ ev'.scaleDelta < 0 => (zoomOffset' > zoomOffset \/ zoomOffset' = ZoomMax)
          /\ (ev'.scaleDelta < 0 /\ C8_Large(ev'.scaleDelta)) => zoomOffset' = ZoomMax
          /\ zoomOffset' >= ZoomMin /\ zoomOffset' <= ZoomMax]_vars

C8_Witness ==
    /\ ev.kind = "frame" /\ ev.hands = 1 /\ ev.scaleDelta > 0 /\ C8_Large(ev.scaleDelta)
    /\ zoomOffset = ZoomMin

\* ------------------------------------------------------------------------
\* Rotation boost.  The control panel has formed the tree; one hand,
\* showing five fingers or pointing at one of two palm positions, or no
\* hand.
\* ------------------------------------------------------------------------
RotPalms == {<<1000, 0>>, <<990, 0>>}
RotDt == 33

\* a frame in which five fingers sweep horizontally
C9_Sweeping(e) == e.hands > 0 /\ e.five /\ Abs(e.dx) > RotationThreshold

\* the sweep has stopped and the boost it left is still there
RotStopped == rotationBoost # 0 /\ ev.kind = "frame" /\ ~C9_Sweeping(ev)

\* the open hand starts at the first palm position and moves once to the
\* second; a sweep begins at a boost of 0 and goes on from frame to frame
\* only; once it has stopped the hand keeps doing what it stopped with
\* (resting open, pointing, or being away) while the boost lasts
RotFrame ==
    \E ext \in {Five, Point}, palm \in RotPalms :
        /\ appState = "FORMED"
        /\ palm = <<1000, 0>> => palmXFilter = 0
        /\ RotStopped => (IF ext = Five THEN ev.five ELSE ev.pointing)
        /\ PredictWebcam(Hand(1, ext, 10, 10, palm, <<300, 400>>, Unlabelled), RotDt)
        /\ C9_Sweeping(ev') => rotationBoost = 0 \/ C9_Sweeping(ev)

RotNoHand ==
    /\ appState = "FORMED"
    /\ RotStopped => ev.hands = 0
    /\ PredictWebcam(NoHand, RotDt)

RotToggle == appState = "CHAOS" /\ ToggleState("FORMED")

NextRot == RotFrame \/ RotNoHand \/ RotToggle

SpecRot == Init /\ [][NextRot]_vars

\* C9: in FORMED, every processed frame that does not sweep - the hand
\* rests, shows another gesture, pointing included, or is gone - brings
\* rotationBoost closer to 0, and leaves it 0 once it is 0.
C9_BoostDecaysWithoutSweep ==
    [][(ev'.kind = "frame" /\ ev'.state = "FORMED" /\ ~C9_Sweeping(ev')) =>
          IF rotationBoost = 0 THEN rotationBoost' = 0
          ELSE Abs(rotationBoost') < Abs(rotationBoost)]_vars

\* ------------------------------------------------------------------------
\* Start-up and shutdown of the gesture subsystem: the two promises settle
\* in any order, the component may unmount at any moment, and while the
\* loop runs a hand points or makes a fist; frames are LifeDt apart.
\* ------------------------------------------------------------------------
LifeFrames ==
    { Hand(1, Point, 10, 10, <<1000, 0>>, <<300, 400>>, Unlabelled),
      Hand(1, Fist, 10, 10, <<1000, 0>>, <<300, 400>>, Gesture("Closed_Fist", 90)) }
LifeDt == 400

LifeMetadata == \E f \in LifeFrames : LoadedMetadata(f, LifeDt)

LifeFrame == \E f \in LifeFrames : AnimationFrame(f, LifeDt)

LifeToggle == \E value \in {"CHAOS", "FORMED"} : ToggleState(value)

LifeMiss == ClickEffects("null", FALSE, TRUE)

LifeUnmount == \E detached \in BOOLEAN : Cleanup(detached)

MaxLifeFrames == 2
LifeRenderDt == 16

LifeRender == scene.frames < MaxLifeFrames /\ RenderFrame(LifeRenderDt)

NextLife ==
    \/ CameraGranted \/ CameraDenied \/ ModelLoaded \/ ModelFailed
    \/ SetupContinue \/ LifeMetadata \/ LifeFrame \/ LifeToggle \/ LifeMiss
    \/ LifeUnmount \/ LifeRender

SpecLife == InitMount /\ [][NextLife]_vars

\* C12: once the component has unmounted and setupMediaPipe has run to
\* its end, the camera stream is not live and no predictWebcam callback is
\* scheduled or about to be started by the metadata event.
C12_UnmountReleases ==
    (~life.mounted /\ life.setup # "awaiting" /\ life.camera # "pending")
        => (life.stream # "live" /\ ~life.raf /\ ~life.handler)

\* C13: after a failed set-up no predictWebcam callback is scheduled or
\* about to be started, GestureState is neutral, every control signal has
\* its initial value, appState changes only by the UI toggle, and a frame
\* can still be rendered.
C13_FailureLeavesInactive ==
    [][/\ life'.setup = "failed" =>
             /\ ~life'.raf /\ ~life'.handler
             /\ gestureState' = defaultGestureState
             /\ pointer' = Null /\ hoverProgress' = 0 /\ clickTrigger' = 0
             /\ rotationBoost' = 0 /\ panOffset' = <<0, 0>> /\ zoomOffset' = 0
             /\ spreadFactor' = 0 /\ attractorPoint' = Null
             /\ selectedPhotoUrl' = "null"
             /\ (appState' # appState => ev'.kind = "ui")
       /\ (life.setup = "failed" /\ scene.frames < MaxLifeFrames)
             => ENABLED LifeRender]_vars

\* the set-up failed, the camera had been granted before the model
\* failed, the mode was toggled by hand and frames were rendered after it
C13_Witness ==
    /\ life.setup = "failed"
    /\ life.camera = "granted"
    /\ appState = "FORMED"
    /\ ev.kind = "ui"
    /\ scene.frames = MaxLifeFrames
    /\ scene.progress > 0

\* ------------------------------------------------------------------------
\* The render loop on its own: frames of three lengths, the mode toggle
\* and the rotation-speed slider, with no hand in front of the camera.
\* ------------------------------------------------------------------------
MaxFrames == 5
RenderDts == {16, 100, 20000}
SliderSpeeds == {0, RotationSpeedInit}

SceneFrame == \E dt \in RenderDts : scene.frames < MaxFrames /\ RenderFrame(dt)

SceneToggle == \E value \in {"CHAOS", "FORMED"} : value # appState /\ ToggleState(value)

SceneSpeed ==
    \E value \in SliderSpeeds : value # scene.rotationSpeed /\ SetRotationSpeed(value)

NextScene == SceneFrame \/ SceneToggle \/ SceneSpeed

SpecScene == Init /\ [][NextScene]_vars

\* C14 as stated: a frame rendered in FORMED makes progress strictly
\* larger and leaves it at most 1; a frame rendered in CHAOS leaves it at
\* least 0; so progress is always in [0, 1].
C14_StrictlyIncreasing ==
    [][scene'.frames # scene.frames =>
          /\ appState = "FORMED" =>
                /\ scene'.progress > scene.progress
                /\ scene'.oProgress > scene.oProgress
          /\ scene'.progress \in 0..One
          /\ scene'.oProgress \in 0..One]_vars

\* C14: a frame rendered in FORMED never makes progress smaller, makes it
\* strictly larger whenever the step (1 - progress) * (1 - exp(-2.5 dt)) is
\* at least half a unit of the representation, and leaves it unchanged
\* otherwise; a frame rendered in CHAOS never makes it larger; progress is
\* always in [0, 1].
C14_MonotoneInUnitRange ==
    [][scene'.frames # scene.frames =>
          /\ appState = "FORMED" =>
                /\ scene'.progress >= scene.progress
                /\ (2 * DampFactor(scene'.delta) * (One - scene.progress) >= One)
                      <=> scene'.progress > scene.progress
                /\ scene'.oProgress >= scene.oProgress
          /\ appState = "CHAOS" =>
                /\ scene'.progress <= scene.progress
                /\ scene'.oProgress <= scene.oProgress
          /\ scene'.progress \in 0..One
          /\ scene'.oProgress \in 0..One]_vars

\* a third frame in FORMED has raised progress to a value strictly inside
\* (0, 1)
C14_Witness ==
    /\ appState = "FORMED"
    /\ scene.target = "FORMED"
    /\ scene.frames >= 3
    /\ scene.progress \in 400..(One - 1)
    /\ scene.delta = 100

\* C15: after a frame that left progress at 1, every layer's item has
\* vortex twist 0 and sits at its tree point turned by the layer's rotation
\* accumulator: the tree height, the tree radius, the tree angle plus the
\* accumulator, and weight 0 on the chaos position.
C15_TwistVanishes ==
    \A n \in LayerNames :
        LET atOne == IF n = "ornaments" THEN scene.oProgress = One
                     ELSE scene.progress = One
            rot == IF n = "ornaments" THEN scene.oRotation
                   ELSE scene.treeRotation
        IN  (scene.frames > 0 /\ atOne) =>
                /\ scene.placed[n].twist = 0
                /\ scene.placed[n].y = Item(n).ty
                /\ scene.placed[n].r = Item(n).tr
                /\ scene.placed[n].angle = Item(n).tAngle + rot
                /\ scene.placed[n].chaosWeight = 0
                /\ scene.placed[n].treeWeight = One

\* progress is 1 after a FORMED frame and the tree has turned since
C15_Witness ==
    /\ scene.progress = One /\ scene.oProgress = One
    /\ scene.frames >= 2
    /\ scene.treeRotation > 0
    /\ scene.placed["photos"].angle = scene.treeRotation

\* ------------------------------------------------------------------------
\* The render loop while an open hand sweeps in front of the formed tree:
\* the frames of the rotation scenario, with rendered frames in between.
\* ------------------------------------------------------------------------
MaxLockFrames == 2
LockDt == 16

LockRender == scene.frames < MaxLockFrames /\ RenderFrame(LockDt)

NextLock == RotFrame \/ RotNoHand \/ RotToggle \/ LockRender

SpecLock == Init /\ [][NextLock]_vars

\* C16: the progress value and the rotation accumulator that place the
\* ornaments (CrystalOrnaments) equal those that place the foliage, the
\* lights and the photos (TreeSystem) at every rendered frame.
C16_LockStep ==
    /\ scene.oProgress = scene.progress
    /\ scene.oRotation = scene.treeRotation

\* ------------------------------------------------------------------------
\* The layout generators run for counts up to MaxCount, each time with the
\* values Math.random() and the library's generator happen to return.
\* ------------------------------------------------------------------------
MaxCount == 4

LayoutRun ==
    \E count \in 0..MaxCount, s \in RandomStreams, g \in RandomStreams :
        Generate(count, s, g)

NextLayout == LayoutRun

SpecLayout == Init /\ [][NextLayout]_vars

\* C17: two runs of the generators with the same count give the same
\* chaos and tree arrays.
C17_Deterministic ==
    layout.calls = 2 =>
        /\ layout.second.particles = layout.first.particles
        /\ layout.second.foliage = layout.first.foliage
        /\ layout.second.photos = layout.first.photos

C19_HeightsAscend ==
    (layout.calls > 0 /\ layout.count >= 2) =>
        \A i, j \in 1..layout.count :
            i < j =>
                /\ layout.first.photos[i].tree.y < layout.first.photos[j].tree.y
                /\ layout.first.lights[i].tree.y < layout.first.lights[j].tree.y

\* four photos and four lights were laid out, from the bottom to the top
C19_Witness ==
    /\ layout.calls > 0
    /\ layout.count = 4
    /\ layout.first.photos[1].tree.y = -7000
    /\ layout.first.photos[4].tree.y = 8000
    /\ layout.first.lights[1].tree.y = -7500
    /\ layout.first.lights[4].tree.y = 3750

\* ------------------------------------------------------------------------
\* isFingerExtended on its own: the wrist-to-tip and wrist-to-knuckle
\* distances are any two values up to MaxDist (in 1/100).
\* ------------------------------------------------------------------------
MaxDist == 26

InitFinger ==
    \E t \in 0..MaxDist, k \in 0..MaxDist :
        Start(Running, [tipDist |-> t, mcpDist |-> k, called |-> FALSE,
                        result |-> FALSE], NoProbe)

NextFinger == FingerCall

SpecFinger == InitFinger /\ [][NextFinger]_vars

\* C20: isFingerExtended is true exactly when the tip distance is strictly
\* greater than 1.3 times the knuckle distance: true at twice a positive
\* knuckle distance, false at half of it, false at exactly 1.3 times it and
\* false when both are 0.
C20_ExtendedIffBeyondThreshold ==
    finger.called =>
        /\ finger.result <=> (10 * finger.tipDist > 13 * finger.mcpDist)
        /\ (finger.mcpDist > 0 /\ finger.tipDist = 2 * finger.mcpDist)
              => finger.result
        /\ (finger.mcpDist > 0 /\ 2 * finger.tipDist = finger.mcpDist)
              => ~finger.result
        /\ (10 * finger.tipDist = 13 * finger.mcpDist) => ~finger.result
        /\ (finger.tipDist = 0 /\ finger.mcpDist = 0) => ~finger.result

\* the call with a tip distance of exactly 1.3 times a positive knuckle
\* distance has returned false
C20_Witness ==
    /\ finger.called
    /\ finger.mcpDist = 20
    /\ finger.tipDist = 26
    /\ ~finger.result

\* ------------------------------------------------------------------------
\* The ease expression on its own: any progress p in [0, 1] and any q up
\* to EaseGap units above it.
\* ------------------------------------------------------------------------
EaseGap == 5

InitEase ==
    \E p \in 0..One, d \in 0..EaseGap :
        /\ p + d <= One
        /\ Start(Running, NoCall, [p |-> p, q |-> p + d, called |-> FALSE,
                                   easeP |-> 0, easeQ |-> 0])

NextEase == EaseCall

SpecEase == InitEase /\ [][NextEase]_vars

C22_FreshAfterLoss ==
    [][(ev.kind = "frame" /\ ev.hands = 0 /\ ev'.kind = "frame" /\ ev'.hands > 0)
        => /\ gestureState'.openness
                \in {LowPassFilter_filter(0, 3, ev'.open), ev'.open}
           /\ gestureState'.palmPosition[1]
                \in {LowPassFilter_filter(0, 4, One - lastPalmPos'[1]), One - lastPalmPos'[1]}
           /\ gestureState'.palmPosition[2]
                \in {LowPassFilter_filter(0, 4, lastPalmPos'[2]), lastPalmPos'[2]}]_vars

\* ------------------------------------------------------------------------
\* The frames the stability count is taken over.  update is called in the
\* frames that are not pointing, not two-fingers, with no photo open and a
\* score above 0.6; the other frames with a hand neither count nor reset.
\* ------------------------------------------------------------------------
\* C23: a processed frame changes AppState only after the same top label
\* in each of the 10 most recent processed frames with a hand; so the
\* processed frame with a hand just before the switching one carried the
\* switching frame's label.
C23_SwitchAfterSameLabel ==
    [][(ev'.kind = "frame" /\ appState' # appState
          /\ ev.kind = "frame" /\ ev.hands > 0)
        => ev.top = ev'.top]_vars

\* ------------------------------------------------------------------------
\* The zoom paths' reference metric.  The branch for a frame with a hand
\* clears lastHandScale and lastHandDistance when its path is not active;
\* the branch for a frame without a hand touches neither.
\* ------------------------------------------------------------------------
\* the one-hand zoom path applied in the processed frame e
OneHandPath(e) == e.hands = 1 /\ e.five /\ e.state = "CHAOS"

\* the two-hand zoom path applied in the processed frame e
TwoHandPath(e) == e.hands = 2

\* C24: the first processed frame in which a zoom path is active after a
\* processed frame in which that path was not active (other gesture, hand
\* count or mode, or no hand) leaves zoomOffset unchanged.
C24_FirstActiveFrameKeepsZoom ==
    [][(/\ ev'.kind = "frame"
        /\ \/ OneHandPath(ev') /\ ~OneHandPath(ev)
           \/ TwoHandPath(ev') /\ ~TwoHandPath(ev))
        => zoomOffset' = zoomOffset]_vars

\* ------------------------------------------------------------------------
\* The click cooldown.  The dwell path sets clickCooldownRef; no click
\* path reads it.
\* ------------------------------------------------------------------------
\* C25: the processed frame after the one whose dwell timer fired a click,
\* less than the click cooldown later, fires no click, dwell or pinch
\* (ev keeps the last processed frame while the click's effects run).
C25_NoClickDuringCooldown ==
    [][(/\ ev.hands > 0 /\ ev.clicks > 0 /\ ~ev.pinch
        /\ ev'.kind = "frame" /\ ev'.delta < ClickCooldown)
        => ev'.clicks = 0]_vars

\* ------------------------------------------------------------------------
\* Dwell time and animation ticks.  In CHAOS one resting hand points, or
\* no hand shows; between two video frames the loop may run without a new
\* frame; clicks hit no photo.
\* ------------------------------------------------------------------------
TickDts == {100, 200}
TickSkipDt == 100

TickFrame ==
    \E dt \in TickDts :
        PredictWebcam(Hand(1, Point, 10, 10, <<1000, 0>>, <<300, 400>>, Unlabelled), dt)

TickNoHand == \E dt \in TickDts : PredictWebcam(NoHand, dt)

TickSkip == SkipFrame(TickSkipDt)

TickMiss == ClickEffects("null", FALSE, TRUE)

NextTick == TickFrame \/ TickNoHand \/ TickSkip \/ TickMiss

SpecTick == Init /\ [][NextTick]_vars

\* the processed frame just handled shows a still pointing gesture, as did
\* the processed frame before it
C26_StillPointing ==
    /\ held > 0
    /\ ev'.kind = "frame" /\ ev'.hands > 0 /\ ev'.state = "CHAOS"
    /\ ev'.pointing /\ ~ev'.pinch /\ ~ev'.isMoving
    /\ dwellTimerRef >= 0

\* C26: in a processed frame of a still pointing gesture the dwell timer
\* advances by the whole time since the previous processed frame, the
\* ticks without a new video frame included, and the click fires once this
\* sum reaches 1.2 s.
C26_DwellCountsWallClock ==
    [][C26_StillPointing =>
          LET elapsed == idle + ev'.delta
          IN  IF dwellTimerRef + elapsed >= DwellClickTime
              THEN ev'.clicks = 1
              ELSE dwellTimerRef' = dwellTimerRef + elapsed]_vars

\* ------------------------------------------------------------------------
\* Palm velocity.  One unlabelled fist, its palm at one of two places, or
\* no hand; the loop may run without a new video frame.
\* ------------------------------------------------------------------------
StillPalms == {<<1000, 0>>, <<900, 100>>}
StillDt == 100

StillFrame ==
    \E palm \in StillPalms :
        PredictWebcam(Hand(1, Fist, 10, 10, palm, <<300, 400>>, Unlabelled), StillDt)

StillNoHand == PredictWebcam(NoHand, StillDt)

StillSkip == SkipFrame(StillDt)

NextStill == StillFrame \/ StillNoHand \/ StillSkip

SpecStill == Init /\ [][NextStill]_vars

\* C27: a hand whose landmarks are those of the processed frame before has
\* palm velocity (0, 0) and is classified as not moving.
C27_SameLandmarksNoVelocity ==
    [][(/\ ev.hands > 0 /\ lastPalmPos # Null
        /\ ev'.kind = "frame" /\ ev'.hands > 0
        /\ lastPalmPos' = lastPalmPos /\ ev'.tip = ev.tip /\ ev'.open = ev.open)
        => /\ velocityRef' = <<0, 0>>
           /\ gestureState'.palmVelocity = <<0, 0>>
           /\ ~ev'.isMoving]_vars

\* ------------------------------------------------------------------------
\* The photo panel.  In CHAOS one resting hand points, with or without a
\* pinch, or no hand shows; a click finds a photo under the pointer or
\* none, and the panel's backdrop or image under it or not.
\* ------------------------------------------------------------------------
PanelDt == 400

PanelFrame ==
    \E pinchDist \in {0, 10} :
        PredictWebcam(Hand(1, Point, 10, pinchDist, <<1000, 0>>, <<300, 400>>,
                           Unlabelled), PanelDt)

PanelNoHand == PredictWebcam(NoHand, PanelDt)

PanelClick ==
    \E closest \in {"null", "p1", "p2"}, onModal \in BOOLEAN, treeLast \in BOOLEAN :
        ClickEffects(closest, onModal, treeLast)

NextPanel == PanelFrame \/ PanelNoHand \/ PanelClick

SpecPanel == Init /\ [][NextPanel]_vars

\* C28: while a photo has been open for less than 3 s, the effects of a
\* click neither close it nor put another photo in its place.
C28_PanelLocked ==
    [][(selectedPhotoUrl # "null" /\ photoAge < PhotoLock /\ ev'.kind = "click")
        => selectedPhotoUrl' = selectedPhotoUrl]_vars

\* ------------------------------------------------------------------------
\* Hand shapes.  One resting hand with any set of fingers extended, with
\* or without a pinch, shown for one frame to filters at rest, or no
\* hand; the control panel toggles the mode.
\* ------------------------------------------------------------------------
ShapeDt == 400

ShapeFrame ==
    \E ext \in SUBSET (1..5), pinchDist \in {0, 10} :
        /\ ev.hands = 0 /\ opennessFilter = 0
        /\ PredictWebcam(Hand(1, ext, 10, pinchDist, <<1000, 0>>, <<300, 400>>,
                              Unlabelled), ShapeDt)

ShapeNoHand == PredictWebcam(NoHand, ShapeDt)

ShapeToggle == \E value \in {"CHAOS", "FORMED"} : ToggleState(value)

ShapeMiss == ClickEffects("null", FALSE, TRUE)

NextShape == ShapeFrame \/ ShapeNoHand \/ ShapeToggle \/ ShapeMiss

SpecShape == Init /\ [][NextShape]_vars

\* C29: in the published GestureState isPointing, isTwoFingers and isOpen
\* exclude one another and isClosed excludes all three; of the pointer
\* rule, the pan rule and the five-finger rules (spread, zoom, rotation)
\* at most one applied to the last processed frame.
C29_FlagsExclusive ==
    LET g == gestureState
    IN  /\ ~(g.isPointing /\ g.isTwoFingers)
        /\ ~(g.isPointing /\ g.isOpen)
        /\ ~(g.isTwoFingers /\ g.isOpen)
        /\ g.isClosed => ~(g.isPointing \/ g.isTwoFingers \/ g.isOpen)
        /\ Cardinality(ev.rules \cap {"pointer", "pan"})
             + (IF ev.rules \cap {"spread", "zoom", "rotation"} # {} THEN 1 ELSE 0)
           <= 1

\* a pinching hand with thumb, index and middle finger extended: two
\* fingers, and the pan rule alone
C29_Witness ==
    /\ ev.kind = "frame" /\ ev.pinch /\ ev.open = WeightThumb + WeightIndex + WeightMiddle
    /\ gestureState.isTwoFingers /\ gestureState.isPinching
    /\ ev.rules = {"pan"}

\* ------------------------------------------------------------------------
\* The animation controller.  Frames come 16 ms, 100 ms or half a second
\* apart; the control panel toggles the mode; an open hand may show for a
\* frame, once.
\* ------------------------------------------------------------------------
MaxAnimFrames == 3
AnimDts == {16, 100, 500}
AnimHandDt == 33

AnimTick ==
    \E dt \in AnimDts : anim.frames < MaxAnimFrames /\ AnimFrame(dt)

AnimToggle == \E value \in {"CHAOS", "FORMED"} : ToggleState(value)

\* the first frame that shows a hand
AnimHand ==
    /\ ev.hands = 0 /\ opennessFilter = 0
    /\ PredictWebcam(Hand(1, Five, 10, 10, <<1000, 0>>, <<300, 400>>, Unlabelled),
                     AnimHandDt)

NextAnim == AnimTick \/ AnimToggle \/ AnimHand

SpecAnim == Init /\ [][NextAnim]_vars

\* C30: the transition value stays in [0, 1] and does not pass its target
\* (1 when FORMED, 0 when CHAOS), and the blend factor of calculateSpread
\* is in [0, 1].
C30_TransitionInUnitRange ==
    /\ anim.transition >= 0 /\ anim.transition <= One
    /\ anim.blend >= 0 /\ anim.blend <= One
====
